---- MODULE Spec2Model ----
(***************************************************************************)
(* Model of streamlit_app.py: the photographic report generator for the    *)
(* CEF Wi-Fi checklist.  A Streamlit script is re-run from top to bottom    *)
(* on every user interaction; the widget values (form fields, uploads, the  *)
(* force checkbox) persist between runs and everything else is recomputed.  *)
(*                                                                         *)
(* Text is modelled as a sequence of characters, each character a string.   *)
(* The two accented letters the keyword table uses are written "a^" (a      *)
(* with circumflex) and "a~" (a with tilde), "A^" and "A~" in upper case;   *)
(* each is ONE character of the text.                                       *)
(***************************************************************************)
EXTENDS Integers, Sequences, FiniteSets, TLC

VARIABLES
  raw_chamado,     \* text of the ticket field, as last submitted
  tipo,            \* selected checklist type
  uploaded,        \* the uploader's files, in upload order
  force,           \* the "forcar geracao" checkbox
  chamado_number,  \* first run of digits of raw_chamado, or empty
  mapped,          \* slot -> content of the file kept for it
  ok,              \* check_requirements(mapped, tipo)[0]
  missing,         \* check_requirements(mapped, tipo)[1]
  pc,              \* position of the script: idle, layout, scale, ...
  y_pos,           \* layout cursor, in units of 1/Pt point
  sec,             \* index in PDF_IMAGE_ORDER of the next section
  pages,           \* number of c.showPage() calls so far
  instr,           \* drawing calls made on the canvas, in order
  pil_img,         \* the image being placed, or NoImage
  last_draw,       \* arguments of the last c.drawImage call, or NoDraw
  msg,             \* what the "Gerar PDF" handler reported
  download         \* file name offered for download, or empty

vars == <<raw_chamado, tipo, uploaded, force, chamado_number, mapped, ok,
          missing, pc, y_pos, sec, pages, instr, pil_img, last_draw, msg,
          download>>

-----------------------------------------------------------------------------
(* Bounds of the model *)

\* longest list of files drawn from the short-name universe
MaxFiles == 2

-----------------------------------------------------------------------------
(* Characters *)

UpperCase ==
  <<"A", "B", "C", "D", "E", "F", "G", "H", "I", "J", "K", "L", "M", "N",
    "O", "P", "Q", "R", "S", "T", "U", "V", "W", "X", "Y", "Z", "A^", "A~">>

LowerCase ==
  <<"a", "b", "c", "d", "e", "f", "g", "h", "i", "j", "k", "l", "m", "n",
    "o", "p", "q", "r", "s", "t", "u", "v", "w", "x", "y", "z", "a^", "a~">>

Digits == {"0", "1", "2", "3", "4", "5", "6", "7", "8", "9"}

\* what the regular expression class \s matches
WhiteSpace == {" ", "\t"}

\* what the regular expression class \w matches (Unicode letters included)
WordChars ==
  {UpperCase[i] : i \in DOMAIN UpperCase} \cup
  {LowerCase[i] : i \in DOMAIN LowerCase} \cup Digits \cup {"_"}

\* str.lower() on one character
lower(c) ==
  IF \E i \in DOMAIN UpperCase : UpperCase[i] = c
  THEN LowerCase[CHOOSE i \in DOMAIN UpperCase : UpperCase[i] = c]
  ELSE c

-----------------------------------------------------------------------------
(* Configuration tables *)

SLOTS_KEYWORDS ==
  << [slot |-> "rack", keywords |-> <<
        <<"r", "a", "c", "k">> >>],
     [slot |-> "local_ap", keywords |-> <<
        <<"l", "o", "c", "a", "l">>,
        <<"a", "p", "_", "i", "n", "s", "t", "a", "l", "a", "d", "o">>,
        <<"a", "p", "f", "i", "c", "o", "u">>,
        <<"o", "n", "d", "e", "_", "a", "p">> >>],
     [slot |-> "panoramica", keywords |-> <<
        <<"p", "a", "n", "o", "r", "a", "m", "i", "c", "a">>,
        <<"p", "a", "n", "o", "r", "a^", "m", "i", "c", "a">>,
        <<"p", "a", "n", "o", "r", "a", "m", "i", "c", "o">>,
        <<"p", "a", "n", "o", "r", "a", "m">> >>],
     [slot |-> "area_autoatendimento", keywords |-> <<
        <<"a", "u", "t", "o", "a", "t", "e", "n", "d", "i", "m", "e", "n", "t", "o">>,
        <<"a", "u", "t", "o", "_", "a", "t", "e", "n", "d", "i", "m", "e", "n", "t", "o">>,
        <<"a", "u", "t", "o", "a", "t", "e", "n", "d">> >>],
     [slot |-> "equipamento", keywords |-> <<
        <<"e", "q", "u", "i", "p", "a", "m", "e", "n", "t", "o">>,
        <<"d", "e", "v", "i", "c", "e">>,
        <<"e", "q", "u", "i", "p">> >>],
     [slot |-> "mac", keywords |-> <<
        <<"m", "a", "c">> >>],
     [slot |-> "serial", keywords |-> <<
        <<"s", "e", "r", "i", "a", "l">> >>],
     [slot |-> "mac_serial", keywords |-> <<
        <<"m", "a", "c", "_", "s", "e", "r", "i", "a", "l">>,
        <<"m", "a", "c", "s", "e", "r", "i", "a", "l">> >>],
     [slot |-> "teste_velocidade", keywords |-> <<
        <<"s", "p", "e", "e", "d", "t", "e", "s", "t">>,
        <<"v", "e", "l", "o", "c", "i", "d", "a", "d", "e">>,
        <<"t", "e", "s", "t", "e", "_", "l", "i", "n", "k">>,
        <<"t", "e", "s", "t", "e", "_", "v", "e", "l", "o", "c", "i", "d", "a", "d", "e">> >>],
     [slot |-> "tela_conexao", keywords |-> <<
        <<"t", "e", "l", "a", "_", "c", "o", "n", "e", "x", "a", "o">>,
        <<"t", "e", "l", "a", "_", "c", "o", "n", "e", "x", "a~", "o">>,
        <<"t", "e", "l", "a", "w", "i", "f", "i">>,
        <<"t", "e", "l", "a", "_", "c", "o", "n", "e", "x", "a", "o", "_", "w", "i", "f", "i">> >>],
     [slot |-> "teste_mtu", keywords |-> <<
        <<"m", "t", "u">>,
        <<"b", "a", "n", "d", "a">>,
        <<"t", "e", "s", "t", "e", "_", "m", "t", "u">> >>],
     [slot |-> "portal_login", keywords |-> <<
        <<"p", "o", "r", "t", "a", "l">>,
        <<"c", "a", "p", "t", "i", "v", "e">>,
        <<"c", "a", "p", "t", "c", "h", "a">>,
        <<"c", "a", "p", "t", "i", "v", "o">>,
        <<"p", "o", "r", "t", "a", "l", "_", "l", "o", "g", "i", "n">> >>],
     [slot |-> "checklist", keywords |-> <<
        <<"c", "h", "e", "c", "k", "l", "i", "s", "t">> >>],
     [slot |-> "rat", keywords |-> <<
        <<"r", "a", "t">> >>] >>

Slots == {SLOTS_KEYWORDS[i].slot : i \in DOMAIN SLOTS_KEYWORDS}

\* Presentation order of the sections of the PDF (labels abbreviated)
PDF_IMAGE_ORDER ==
  << [label |-> "RACK", slot |-> "rack"],
     [label |-> "LOCAL ONDE O AP FICOU INSTALADO", slot |-> "local_ap"],
     [label |-> "FOTO PANORAMICA DA SALA", slot |-> "panoramica"],
     [label |-> "AREA DE AUTOATENDIMENTO", slot |-> "area_autoatendimento"],
     [label |-> "EQUIPAMENTO", slot |-> "equipamento"],
     [label |-> "MAC / SERIAL DO EQUIPAMENTO", slot |-> "mac_serial"],
     [label |-> "MAC (separado)", slot |-> "mac"],
     [label |-> "SERIAL (separado)", slot |-> "serial"],
     [label |-> "PRINT TESTE DO LINK (SpeedTest)", slot |-> "teste_velocidade"],
     [label |-> "PRINT DA TELA DE CONEXAO WIFI", slot |-> "tela_conexao"],
     [label |-> "PRINT DO TESTE WI-FI BANDA E MTU", slot |-> "teste_mtu"],
     [label |-> "PRINTS TELA LOGIN CAPTIVE PORTAL", slot |-> "portal_login"],
     [label |-> "CHECKLIST PREENCHIDO ASSINADO", slot |-> "checklist"],
     [label |-> "RAT PREENCHIDA ASSINADA", slot |-> "rat"] >>

\* A requirement rule: a str (one slot) or a tuple of alternative slots
Single(s) == [tuple |-> FALSE, slots |-> <<s>>]
AnyOf(ss) == [tuple |-> TRUE, slots |-> ss]

Tipos == {"produtiva", "improdutiva"}

REQUIRED_BY_TYPE ==
  [t \in Tipos |->
     IF t = "produtiva"
     THEN << Single("rack"), Single("local_ap"), Single("panoramica"),
             Single("area_autoatendimento"), Single("equipamento"),
             AnyOf(<<"mac_serial", "mac">>), Single("teste_velocidade"),
             Single("tela_conexao"), Single("teste_mtu"),
             Single("portal_login"), Single("checklist"), Single("rat") >>
     ELSE << Single("rack"), Single("local_ap"),
             Single("area_autoatendimento"), Single("equipamento"),
             AnyOf(<<"mac_serial", "mac", "serial">>),
             Single("teste_velocidade"), Single("checklist"),
             Single("rat") >>]

-----------------------------------------------------------------------------
(* Helper functions *)

\* re.sub(r"\s+", "_", s): every run of whitespace becomes one underscore
RECURSIVE SkipWhiteSpace(_)
SkipWhiteSpace(s) ==
  IF s # <<>> /\ Head(s) \in WhiteSpace THEN SkipWhiteSpace(Tail(s)) ELSE s

RECURSIVE CollapseWhiteSpace(_)
CollapseWhiteSpace(s) ==
  IF s = <<>> THEN <<>>
  ELSE IF Head(s) \in WhiteSpace
       THEN <<"_">> \o CollapseWhiteSpace(SkipWhiteSpace(s))
       ELSE <<Head(s)>> \o CollapseWhiteSpace(Tail(s))

\* re.sub(r"[^\w_]", "_", s)
ReplaceNonWord(s) ==
  [i \in DOMAIN s |-> IF s[i] \in WordChars THEN s[i] ELSE "_"]

normalize_filename(fname) ==
  LET lowered == [i \in DOMAIN fname |-> lower(fname[i])]
  IN  ReplaceNonWord(CollapseWhiteSpace(lowered))

\* Python's  kw in name  on str: substring search
Contains(name, kw) ==
  \E i \in 0 .. (Len(name) - Len(kw)) :
     SubSeq(name, i + 1, i + Len(kw)) = kw

\* The two inner loops of map_uploaded_files: the index in SLOTS_KEYWORDS of
\* the first slot, in definition order, one of whose keywords occurs in the
\* name; 0 when there is none (assigned stays False).
SlotMatches(i, name) ==
  \E k \in DOMAIN SLOTS_KEYWORDS[i].keywords :
     Contains(name, SLOTS_KEYWORDS[i].keywords[k])

FirstMatchingSlot(name) ==
  IF \E i \in DOMAIN SLOTS_KEYWORDS : SlotMatches(i, name)
  THEN CHOOSE i \in DOMAIN SLOTS_KEYWORDS :
         /\ SlotMatches(i, name)
         /\ \A j \in 1 .. (i - 1) : ~ SlotMatches(j, name)
  ELSE 0

\* Files a user may upload: name and content (the content is an identifier
\* of the bytes)
F_rack ==
  [name |-> <<"r", "a", "c", "k", ".", "j", "p", "g">>,
   content |-> 1]
F_checklist_ok ==
  [name |-> <<"c", "h", "e", "c", "k", "l", "i", "s", "t", "_", "o", "k", ".", "j", "p", "g">>,
   content |-> 2]
F_mac_serial_foto ==
  [name |-> <<"m", "a", "c", "_", "s", "e", "r", "i", "a", "l", "_", "f", "o", "t", "o", ".", "j", "p", "g">>,
   content |-> 3]
F_RACK_2 ==
  [name |-> <<"R", "A", "C", "K", " ", "2", ".", "J", "P", "G">>,
   content |-> 4]
F_foto ==
  [name |-> <<"f", "o", "t", "o", ".", "p", "n", "g">>,
   content |-> 5]
F_PANORAMICA ==
  [name |-> <<"P", "A", "N", "O", "R", "A^", "M", "I", "C", "A", " ", "S", "a", "l", "a", ".", "j", "p", "e", "g">>,
   content |-> 6]
F_local_ap ==
  [name |-> <<"l", "o", "c", "a", "l", "_", "a", "p", ".", "j", "p", "g">>,
   content |-> 7]
F_area_autoatendimento ==
  [name |-> <<"a", "r", "e", "a", "_", "a", "u", "t", "o", "a", "t", "e", "n", "d", "i", "m", "e", "n", "t", "o", ".", "j", "p", "g">>,
   content |-> 8]
F_equipamento ==
  [name |-> <<"e", "q", "u", "i", "p", "a", "m", "e", "n", "t", "o", ".", "j", "p", "g">>,
   content |-> 9]
F_mac ==
  [name |-> <<"m", "a", "c", ".", "j", "p", "g">>,
   content |-> 10]
F_teste_velocidade ==
  [name |-> <<"t", "e", "s", "t", "e", "_", "s", "p", "e", "e", "d", "t", "e", "s", "t", ".", "j", "p", "g">>,
   content |-> 11]
F_rat_assinada ==
  [name |-> <<"r", "a", "t", "_", "a", "s", "s", "i", "n", "a", "d", "a", ".", "j", "p", "g">>,
   content |-> 12]
F_panoramica_sala ==
  [name |-> <<"p", "a", "n", "o", "r", "a", "m", "i", "c", "a", "_", "s", "a", "l", "a", ".", "j", "p", "g">>,
   content |-> 13]
F_serial ==
  [name |-> <<"s", "e", "r", "i", "a", "l", ".", "j", "p", "g">>,
   content |-> 14]
F_tela_conexao_wifi ==
  [name |-> <<"t", "e", "l", "a", "_", "c", "o", "n", "e", "x", "a", "o", "_", "w", "i", "f", "i", ".", "j", "p", "g">>,
   content |-> 15]
F_teste_mtu ==
  [name |-> <<"t", "e", "s", "t", "e", "_", "m", "t", "u", ".", "j", "p", "g">>,
   content |-> 16]
F_portal_login_antes ==
  [name |-> <<"p", "o", "r", "t", "a", "l", "_", "l", "o", "g", "i", "n", "_", "a", "n", "t", "e", "s", ".", "j", "p", "g">>,
   content |-> 17]

AllFiles ==
  {F_rack, F_checklist_ok, F_mac_serial_foto, F_RACK_2, F_foto, F_PANORAMICA,
   F_local_ap, F_area_autoatendimento, F_equipamento, F_mac,
   F_teste_velocidade, F_rat_assinada, F_panoramica_sala, F_serial,
   F_tela_conexao_wifi, F_teste_mtu, F_portal_login_antes}

\* A function of the inputs, computed once for each: comparing a function
\* makes TLC enumerate it.
Tabulated(f) == IF f = f THEN f ELSE f

\* lines 80-92 for each file: the slot its normalized name is matched to
SlotIndexOf ==
  Tabulated([f \in AllFiles |-> FirstMatchingSlot(normalize_filename(f.name))])

\* AssignFile with the slot overwritten by every later file
AssignFile_LastWins(m, f) ==
  LET i == SlotIndexOf[f]
  IN  IF i = 0 THEN m
      ELSE LET slot == SLOTS_KEYWORDS[i].slot
           IN  [s \in DOMAIN m \cup {slot} |->
                  IF s = slot THEN f.content ELSE m[s]]

\* One iteration of the outer loop: the file is stored only when its slot
\* is still free; either way the search for this file ends.
AssignFile(m, f) ==
  LET i == SlotIndexOf[f]
  IN  IF i = 0 THEN m
      ELSE LET slot == SLOTS_KEYWORDS[i].slot
           IN  IF slot \in DOMAIN m THEN m ELSE m @@ (slot :> f.content)

EmptyMapping == [s \in {} |-> 0]

RECURSIVE MapFrom(_, _)
MapFrom(m, files) ==
  IF files = <<>> THEN m
  ELSE MapFrom(AssignFile(m, Head(files)), Tail(files))

map_uploaded_files(uploaded_files) == MapFrom(EmptyMapping, uploaded_files)

\* " ou ".join(req), token by token
RECURSIVE Join(_)
Join(ss) ==
  IF Len(ss) <= 1 THEN ss
  ELSE <<Head(ss), " ou ">> \o Join(Tail(ss))

\* what check_requirements appends to missing for a rule: the slot name, or
\* the joined alternatives
Describe(req) == IF req.tuple THEN Join(req.slots) ELSE req.slots

\* Satisfied with every alternative of a tuple required
Satisfied_AllAlternatives(req, m) ==
  \A k \in DOMAIN req.slots : req.slots[k] \in DOMAIN m

Satisfied(req, m) ==
  IF req.tuple
  THEN \E k \in DOMAIN req.slots : req.slots[k] \in DOMAIN m
  ELSE req.slots[1] \in DOMAIN m

RECURSIVE MissingFrom(_, _)
MissingFrom(required, m) ==
  IF required = <<>> THEN <<>>
  ELSE (IF Satisfied(Head(required), m) THEN <<>>
        ELSE <<Describe(Head(required))>>)
       \o MissingFrom(Tail(required), m)

check_requirements(m, t) ==
  LET miss == MissingFrom(REQUIRED_BY_TYPE[t], m)
  IN  [ok |-> Len(miss) = 0, missing |-> miss]

\* re.search(r"\d+", raw): the first maximal run of digits, or empty
RECURSIVE TakeDigits(_)
TakeDigits(s) ==
  IF s # <<>> /\ Head(s) \in Digits
  THEN <<Head(s)>> \o TakeDigits(Tail(s))
  ELSE <<>>

\* FirstDigitRun with the text kept as typed
FirstDigitRun_Unfiltered(s) == s

RECURSIVE FirstDigitRun(_)
FirstDigitRun(s) ==
  IF s = <<>> THEN <<>>
  ELSE IF Head(s) \in Digits THEN TakeDigits(s)
       ELSE FirstDigitRun(Tail(s))

-----------------------------------------------------------------------------
(* Python float arithmetic.  A positive float (IEEE 754 binary64) is a     *)
(* record [m, e]: m its 53-bit significand, 2^52 <= m < 2^53, and e the    *)
(* exponent of its last bit, so that the value is m * 2^e.  The            *)
(* significand is a natural number written in base LimbBase, most          *)
(* significant limb first and without leading zero limbs (a 53-bit number  *)
(* has four limbs).  Every operation rounds its exact result to nearest,   *)
(* ties to even.  Image sizes (below LimbBase / 2 pixels a side) keep the  *)
(* exponents far from the range limits: no subnormal, infinity or zero.    *)

\* number of significand bits of a binary64
SignificandBits == 53

\* bits of a limb, and the base
LimbBits == 15
LimbBase == 2 ^ LimbBits

Pow2(k) == 2 ^ k

\* number of bits of a natural number below LimbBase
BitLength(x) ==
  CHOOSE k \in 0 .. LimbBits : x < Pow2(k) /\ (k = 0 \/ x >= Pow2(k - 1))

RECURSIVE StripLeadingZeros(_)
StripLeadingZeros(b) ==
  IF b # <<>> /\ Head(b) = 0 THEN StripLeadingZeros(Tail(b)) ELSE b

\* number of bits of a limb sequence without leading zero limbs
BigBitLength(b) ==
  IF b = <<>> THEN 0 ELSE LimbBits * (Len(b) - 1) + BitLength(b[1])

\* b * n + carry, exactly (n and carry below LimbBase)
RECURSIVE BigMul(_, _, _)
BigMul(b, n, carry) ==
  IF b = <<>> THEN (IF carry = 0 THEN <<>> ELSE <<carry>>)
  ELSE LET t == b[Len(b)] * n + carry
       IN  BigMul(SubSeq(b, 1, Len(b) - 1), n, t \div LimbBase)
           \o <<t % LimbBase>>

\* long division of b by d, continuing from remainder rem (d below LimbBase)
RECURSIVE BigDiv(_, _, _)
BigDiv(b, d, rem) ==
  IF b = <<>> THEN [q |-> <<>>, r |-> rem]
  ELSE LET cur  == rem * LimbBase + Head(b)
           rest == BigDiv(Tail(b), d, cur % d)
       IN  [q |-> <<cur \div d>> \o rest.q, r |-> rest.r]

\* b * 2^k
RECURSIVE ShiftLeft(_, _)
ShiftLeft(b, k) ==
  IF k = 0 THEN b
  ELSE IF k < LimbBits THEN BigMul(b, Pow2(k), 0)
       ELSE ShiftLeft(b \o <<0>>, k - LimbBits)

BigLess(a, b) ==
  \/ Len(a) < Len(b)
  \/ /\ Len(a) = Len(b)
     /\ \E i \in DOMAIN a : a[i] < b[i] /\ \A j \in 1 .. (i - 1) : a[j] = b[j]

\* m + 1 as a float significand with last-bit exponent e: 2^53 is 2^52 with
\* the exponent one higher
Normalized(m, e) ==
  IF BigBitLength(m) > SignificandBits
  THEN [m |-> BigDiv(m, 2, 0).q, e |-> e + 1]
  ELSE [m |-> m, e |-> e]

\* The float nearest to (b + f) * 2^e, where b has no leading zero limb and
\* 0 <= f < 1 with f > 0 iff sticky: round to nearest, ties to even.
RoundToFloat(b, sticky, e) ==
  LET drop == BigBitLength(b) - SignificandBits
  IN  IF drop <= 0 THEN [m |-> ShiftLeft(b, 0 - drop), e |-> e + drop]
      ELSE LET d    == BigDiv(b, Pow2(drop), 0)
               q    == StripLeadingZeros(d.q)
               half == Pow2(drop - 1)
               up   == \/ d.r > half
                       \/ d.r = half /\ (sticky \/ q[Len(q)] % 2 = 1)
           IN  IF up THEN Normalized(BigMul(q, 1, 1), e + drop)
               ELSE [m |-> q, e |-> e + drop]

\* float(n) for an int n, 1 <= n < LimbBase
FromInt(n) == RoundToFloat(<<n>>, FALSE, 0)

\* x / n for a float x and an int n, 1 <= n < LimbBase / 2
FDivInt(x, n) ==
  LET pad == BitLength(n) + 1
      d   == BigDiv(ShiftLeft(x.m, pad), n, 0)
  IN  RoundToFloat(StripLeadingZeros(d.q), d.r # 0, x.e - pad)

\* n * x for an int n, 1 <= n < LimbBase / 2, and a float x
FMulInt(n, x) == RoundToFloat(BigMul(x.m, n, 0), FALSE, x.e)

\* x < y
FLess(x, y) == x.e < y.e \/ (x.e = y.e /\ BigLess(x.m, y.m))

FLeq(x, y) == ~ FLess(y, x)

\* Python's min on floats
FMin(x, y) == IF FLess(y, x) THEN y ELSE x

\* the next float above x
FSucc(x) == Normalized(BigMul(x.m, 1, 1), x.e)

-----------------------------------------------------------------------------
(* Page geometry.  Lengths are exact, in units of 1/Pt point: reportlab's  *)
(* A4 is 210 mm x 297 mm and 1 mm is 72/25.4 = 360/127 point, so a         *)
(* millimetre is MmUnits units and a point is Pt units.  (The floats the   *)
(* script computes differ from these exact values by less than 1e-12       *)
(* point, and every comparison of the layout is decided by whole points.)  *)

Pt == 127
MmUnits == 360

A4 == [width |-> 210 * MmUnits, height |-> 297 * MmUnits]

margin == 40 * Pt

image_section_height == 220 * Pt

\* y_pos -= 16 after a section title or the conclusion title
TitleLine == 16 * Pt

\* y_pos -= 6 between blocks
BlockGap == 6 * Pt

\* the conclusion needs 80 points
ConclusionHeight == 80 * Pt

\* offset of the box above the bottom of its section, and what the box is
\* shorter than the section
BoxLift == 8 * Pt
BoxTrim == 24 * Pt

\* leading of the 10-point text object (1.2 * 10), and the lines of the
\* "Objetivo" paragraph that textLines writes
TextLeading == 12 * Pt
ObjetivoLines == 2

\* cursor positions of the header block, top to bottom
HeaderTitleY == A4.height - margin
HeaderChamadoY == HeaderTitleY - 24 * Pt
HeaderIntegradoraY == HeaderChamadoY - 18 * Pt
HeaderContratoY == HeaderIntegradoraY - 14 * Pt
HeaderObjetivoY == HeaderContratoY - 22 * Pt

\* FirstSectionY with the "Objetivo" paragraph and the gaps around it left
\* out of the cursor
FirstSectionY_NoParagraph == HeaderContratoY

\* y_pos when the section loop starts: text.getY() - 12, then 6 more
FirstSectionY ==
  HeaderObjetivoY - ObjetivoLines * TextLeading - 12 * Pt - BlockGap

\* max_w = width - 2 * margin as the float the script computes:
\* 595.2755905511812 - 80 = 0x1.01a3468d1a347p+9
max_w == [m |-> <<128, 26833, 20899, 9031>>, e |-> -43]

\* max_h = image_section_height - 24
max_h == FromInt((image_section_height - BoxTrim) \div Pt)

One == FromInt(1)

NoImage == [mode |-> "none", w |-> 0, h |-> 0]
NoDraw == [slot |-> "none", img_w |-> 0, img_h |-> 0, ratio |-> One,
           draw_w |-> One, draw_h |-> One]

\* line 127: the uniform scale factor
ScaleRatio(img_w, img_h, box_w, box_h) ==
  FMin(FMin(FDivInt(box_w, img_w), FDivInt(box_h, img_h)), One)

\* add_image_to_canvas: the size the image is drawn at.  The image is placed
\* at the top of its box: its lower edge is at y + (box_h - draw_h).
add_image_to_canvas(slot, img, box_w, box_h) ==
  LET ratio == ScaleRatio(img.w, img.h, box_w, box_h)
  IN  [slot |-> slot, img_w |-> img.w, img_h |-> img.h, ratio |-> ratio,
       draw_w |-> FMulInt(img.w, ratio), draw_h |-> FMulInt(img.h, ratio)]

-----------------------------------------------------------------------------
(* Inputs *)

RAW_empty == <<>>
RAW_no_digits == <<"s", "e", "m", " ", "n", "u", "m", "e", "r", "o">>
RAW_chamado == <<"C", "h", "a", "m", "a", "d", "o", " ", "2", "0", "2", "5", "0", "3", "3", "0", "7", "6", "2">>
RAW_two_runs == <<"O", "S", " ", "1", "2", "/", "3", "4">>

\* files a user uploads in any order and number up to MaxFiles
ShortFiles == {F_rack, F_RACK_2, F_checklist_ok, F_mac_serial_foto}

\* the photos of a complete "improdutiva" visit
KitImprodutiva ==
  <<F_rack, F_local_ap, F_area_autoatendimento, F_equipamento, F_mac,
    F_teste_velocidade, F_checklist_ok, F_rat_assinada>>

\* an upload with files that match no keyword, an upper-case name with an
\* accent and a space, and second files for slots already filled
MixedUpload ==
  <<F_foto, F_PANORAMICA, F_RACK_2, F_mac_serial_foto, F_rack, F_mac, F_foto>>

UploadLists ==
  UNION {[1 .. n -> ShortFiles] : n \in 0 .. MaxFiles}
  \cup {KitImprodutiva, MixedUpload}

RawInputs == {RAW_empty, RAW_no_digits, RAW_chamado, RAW_two_runs}

\* what the user types before submitting the form
TypedInputs == {RAW_no_digits, RAW_chamado, RAW_two_runs}

\* What PIL makes of a file's bytes.  Image.open reads only the header: it
\* raises when the bytes are no image (opens = FALSE), and otherwise gives
\* the mode and size; the pixel data is decoded later, by convert or save,
\* which raise when the data is truncated or corrupt (loads = FALSE).
LayoutSizes == {<<1000, 800>>, <<100, 100>>}

DecodeResults ==
  {[opens |-> FALSE, mode |-> "none", w |-> 0, h |-> 0, loads |-> FALSE]}
  \cup
  {[opens |-> TRUE, mode |-> md, w |-> s[1], h |-> s[2], loads |-> l] :
     md \in {"RGB", "P"}, s \in LayoutSizes, l \in BOOLEAN}

-----------------------------------------------------------------------------
(* The script *)

\* drawing calls
Call(op, arg, y) == [op |-> op, arg |-> arg, y |-> y]

\* lines 224-247: the header block
HeaderCalls ==
  << Call("header", "CHECKLIST", HeaderTitleY),
     Call("header", "chamado, versao, data", HeaderChamadoY),
     Call("header", "Integradora", HeaderIntegradoraY),
     Call("header", "Contrato", HeaderContratoY),
     Call("header", "Objetivo", HeaderObjetivoY) >>

\* PlaceholderCalls with the caption alone
PlaceholderCalls_CaptionOnly(slot, box_y) ==
  << Call("caption", slot, box_y + 10 * Pt) >>

\* lines 283-285: the box of a field without image, and its caption
PlaceholderCalls(slot, box_y) ==
  << Call("rect", slot, box_y), Call("caption", slot, box_y + 10 * Pt) >>

\* line 279: the image, in the same box
ImageCalls(slot, box_y) == << Call("image", slot, box_y) >>

\* lines 280 and 286: what each branch lowers the cursor by
AfterImage(y) == y - image_section_height
AfterPlaceholder(y) == y - image_section_height

\* line 254: the page-break test of the section loop
NeedsPage(y) == y - image_section_height < margin

\* lines 145-148, 186 and 200: what every run of the script computes from
\* the widget values before it reaches the button
\* (The three functions are tabulated over the inputs.)
ChamadoOf == Tabulated([raw \in RawInputs |-> FirstDigitRun(raw)])
MappedOf == Tabulated([files \in UploadLists |-> map_uploaded_files(files)])
CheckOf ==
  Tabulated([files \in UploadLists, t \in Tipos |->
               check_requirements(MappedOf[files], t)])

ScriptTop(raw, t, files) ==
  /\ chamado_number' = ChamadoOf[raw]
  /\ mapped' = MappedOf[files]
  /\ ok' = CheckOf[files, t].ok
  /\ missing' = CheckOf[files, t].missing

\* positions at which the script has ended and the page waits for the user
AtRest == {"idle", "blocked", "done", "crashed"}

NoLayout ==
  /\ y_pos' = 0 /\ sec' = 0 /\ pages' = 0 /\ instr' = <<>>
  /\ pil_img' = NoImage /\ last_draw' = NoDraw /\ download' = <<>>

Init ==
  /\ raw_chamado = <<>>
  /\ tipo = "produtiva"
  /\ uploaded = <<>>
  /\ force = FALSE
  /\ chamado_number = <<>>
  /\ mapped = EmptyMapping
  /\ ok = check_requirements(EmptyMapping, "produtiva").ok
  /\ missing = check_requirements(EmptyMapping, "produtiva").missing
  /\ pc = "idle"
  /\ y_pos = 0 /\ sec = 0 /\ pages = 0 /\ instr = <<>>
  /\ pil_img = NoImage /\ last_draw = NoDraw
  /\ msg = "none" /\ download = <<>>

\* "Mapear arquivos e validar": the form's values reach the script.  What
\* a submission leads to depends on the submitted values and on force only,
\* so it is taken from the idle states, which every other state at rest
\* reaches by ToggleForce.
SubmitForm ==
  /\ pc = "idle"
  /\ \E raw \in TypedInputs, t \in Tipos, files \in UploadLists :
       /\ raw_chamado' = raw /\ tipo' = t /\ uploaded' = files
       /\ ScriptTop(raw, t, files)
  /\ pc' = "idle" /\ msg' = "none"
  /\ NoLayout
  /\ UNCHANGED force

\* the checkbox is outside the form: changing it re-runs the script
ToggleForce ==
  /\ pc \in AtRest
  /\ force' = ~ force
  /\ ScriptTop(raw_chamado, tipo, uploaded)
  /\ pc' = "idle" /\ msg' = "none"
  /\ NoLayout
  /\ UNCHANGED <<raw_chamado, tipo, uploaded>>

\* Refusal with the force flag ignored
Refusal_IgnoresForce(number, valid, forced) ==
  IF number = <<>> THEN "error_chamado"
  ELSE IF ~ valid THEN "error_faltam"
  ELSE "none"

\* lines 211-215: which st.error the button's handler ends in, if any
Refusal(number, valid, forced) ==
  IF number = <<>> THEN "error_chamado"
  ELSE IF ~ valid /\ ~ forced THEN "error_faltam"
  ELSE "none"

\* lines 210-247: the button; a refusal, or the canvas and the header
GerarPDF ==
  /\ pc \in AtRest
  /\ ScriptTop(raw_chamado, tipo, uploaded)
  /\ IF Refusal(ChamadoOf[raw_chamado], CheckOf[uploaded, tipo].ok, force)
        # "none"
     THEN /\ msg' = Refusal(ChamadoOf[raw_chamado],
                            CheckOf[uploaded, tipo].ok, force)
          /\ pc' = "blocked" /\ NoLayout
     ELSE /\ msg' = "none" /\ pc' = "layout"
          /\ instr' = <<Call("Canvas", "A4", 0)>> \o HeaderCalls
          /\ y_pos' = FirstSectionY
          /\ sec' = 1 /\ pages' = 0
          /\ pil_img' = NoImage /\ last_draw' = NoDraw /\ download' = <<>>
  /\ UNCHANGED <<raw_chamado, tipo, uploaded, force>>

\* lines 252-288: one iteration of the section loop
Section ==
  /\ pc = "layout" /\ sec <= Len(PDF_IMAGE_ORDER)
  /\ LET slot  == PDF_IMAGE_ORDER[sec].slot
         brk   == NeedsPage(y_pos)
         y0    == IF brk THEN A4.height - margin ELSE y_pos
         y1    == y0 - TitleLine
         box_y == y1 - image_section_height + BoxLift
         pre   == (IF brk THEN <<Call("showPage", "", 0)>> ELSE <<>>)
                  \o <<Call("title", slot, y0)>>
     IN  /\ pages' = IF brk THEN pages + 1 ELSE pages
         /\ \E d \in DecodeResults :
              IF slot \notin DOMAIN mapped \/ ~ d.opens
              THEN \* absent, or Image.open raised inside the try
                   /\ instr' = instr \o pre \o PlaceholderCalls(slot, box_y)
                   /\ y_pos' = AfterPlaceholder(y1) - BlockGap
                   /\ pil_img' = NoImage
                   /\ sec' = sec + 1
                   /\ UNCHANGED <<pc, msg, last_draw>>
              ELSE IF ~ d.loads
              THEN \* convert (line 278) or save (line 132) raises
                   /\ instr' = instr \o pre
                   /\ y_pos' = y1
                   /\ pil_img' = [mode |-> d.mode, w |-> d.w, h |-> d.h]
                   /\ pc' = "crashed" /\ msg' = "exception"
                   /\ UNCHANGED <<sec, last_draw>>
              ELSE LET img == [mode |-> "RGB", w |-> d.w, h |-> d.h]
                   IN  /\ instr' = instr \o pre \o ImageCalls(slot, box_y)
                       /\ last_draw' =
                            add_image_to_canvas(slot, img, max_w, max_h)
                       /\ y_pos' = AfterImage(y1) - BlockGap
                       /\ pil_img' = img
                       /\ sec' = sec + 1
                       /\ UNCHANGED <<pc, msg>>
  /\ UNCHANGED <<raw_chamado, tipo, uploaded, force, chamado_number, mapped,
                 ok, missing, download>>

\* lines 290-312: the conclusion, the last page, the download button
Conclusion ==
  /\ pc = "layout" /\ sec > Len(PDF_IMAGE_ORDER)
  /\ LET brk == y_pos - ConclusionHeight < margin
         y0  == IF brk THEN A4.height - margin ELSE y_pos
     IN  /\ instr' = instr
                     \o (IF brk THEN <<Call("showPage", "", 0)>> ELSE <<>>)
                     \o << Call("conclusion", "Conclusao", y0),
                           Call("conclusion", "texto", y0 - TitleLine),
                           Call("showPage", "", 0),
                           Call("save", "", 0) >>
         /\ y_pos' = y0 - TitleLine
         /\ pages' = pages + (IF brk THEN 1 ELSE 0) + 1
  /\ pc' = "done" /\ msg' = "success"
  /\ download' = chamado_number \o <<".", "p", "d", "f">>
  /\ UNCHANGED <<raw_chamado, tipo, uploaded, force, chamado_number, mapped,
                 ok, missing, sec, pil_img, last_draw>>

Next == SubmitForm \/ ToggleForce \/ GerarPDF \/ Section \/ Conclusion

Spec == Init /\ [][Next]_vars

-----------------------------------------------------------------------------
(* check_requirements on its own: every mapping the uploader can produce,  *)
(* under both checklist types.                                             *)

\* one file for each slot that a file name can reach, in registry order
CanonicalFiles ==
  <<F_rack, F_local_ap, F_panoramica_sala, F_area_autoatendimento,
    F_equipamento, F_mac, F_serial, F_teste_velocidade, F_tela_conexao_wifi,
    F_teste_mtu, F_portal_login_antes, F_checklist_ok, F_rat_assinada>>

\* the files of CanonicalFiles at the positions in S, in order
RECURSIVE Chosen(_, _)
Chosen(S, i) ==
  IF i > Len(CanonicalFiles) THEN <<>>
  ELSE (IF i \in S THEN <<CanonicalFiles[i]>> ELSE <<>>) \o Chosen(S, i + 1)

InitValidate ==
  /\ raw_chamado = <<>>
  /\ tipo \in Tipos
  /\ uploaded \in {Chosen(S, 1) : S \in SUBSET DOMAIN CanonicalFiles}
  /\ force = FALSE
  /\ chamado_number = <<>>
  /\ mapped = map_uploaded_files(uploaded)
  /\ ok = FALSE
  /\ missing = <<>>
  /\ pc = "validate"
  /\ y_pos = 0 /\ sec = 0 /\ pages = 0 /\ instr = <<>>
  /\ pil_img = NoImage /\ last_draw = NoDraw
  /\ msg = "none" /\ download = <<>>

\* line 200
Validate ==
  /\ pc = "validate"
  /\ ok' = check_requirements(mapped, tipo).ok
  /\ missing' = check_requirements(mapped, tipo).missing
  /\ pc' = "validated"
  /\ UNCHANGED <<raw_chamado, tipo, uploaded, force, chamado_number, mapped,
                 y_pos, sec, pages, instr, pil_img, last_draw, msg, download>>

NextValidate == Validate

SpecValidate == InitValidate /\ [][NextValidate]_vars

-----------------------------------------------------------------------------
(* add_image_to_canvas on its own: images of many sizes in the box of a    *)
(* section.                                                                *)

ScaleWidths == {1, 100, 515, 516, 517, 800, 1000, 1031, 2000, 4000}
ScaleHeights == {1, 100, 196, 197, 287, 291, 392, 600, 1000, 3000}

InitScale ==
  /\ raw_chamado = <<>>
  /\ tipo = "produtiva"
  /\ uploaded = <<>>
  /\ force = FALSE
  /\ chamado_number = <<>>
  /\ mapped = EmptyMapping
  /\ ok = FALSE
  /\ missing = <<>>
  /\ pc = "place"
  /\ y_pos = 0 /\ sec = 0 /\ pages = 0 /\ instr = <<>>
  /\ pil_img \in {[mode |-> "RGB", w |-> w, h |-> h] :
                    w \in ScaleWidths, h \in ScaleHeights}
  /\ last_draw = NoDraw
  /\ msg = "none" /\ download = <<>>

\* line 279
PlaceImage ==
  /\ pc = "place"
  /\ last_draw' = add_image_to_canvas("rack", pil_img, max_w, max_h)
  /\ pc' = "placed"
  /\ UNCHANGED <<raw_chamado, tipo, uploaded, force, chamado_number, mapped,
                 ok, missing, y_pos, sec, pages, instr, pil_img, msg,
                 download>>

NextScale == PlaceImage

SpecScale == InitScale /\ [][NextScale]_vars

-----------------------------------------------------------------------------
(* Properties *)

\* the slot a file is classified to, "none" when no keyword occurs in it
ClassOf(f) ==
  IF SlotIndexOf[f] = 0 THEN "none" ELSE SLOTS_KEYWORDS[SlotIndexOf[f]].slot

\* length of the longest keyword of slot i occurring in name, 0 for none
LongestKeyword(i, name) ==
  LET ls == {Len(SLOTS_KEYWORDS[i].keywords[k]) :
               k \in {k \in DOMAIN SLOTS_KEYWORDS[i].keywords :
                        Contains(name, SLOTS_KEYWORDS[i].keywords[k])}}
  IN  IF ls = {} THEN 0 ELSE CHOOSE l \in ls : \A x \in ls : x <= l

\* the most specific slot matching name: the one with the longest keyword
\* occurring in it
MostSpecificSlot(name) ==
  LET best == CHOOSE i \in DOMAIN SLOTS_KEYWORDS :
                \A j \in DOMAIN SLOTS_KEYWORDS :
                   \/ LongestKeyword(j, name) < LongestKeyword(i, name)
                   \/ LongestKeyword(j, name) = LongestKeyword(i, name) /\ i <= j
  IN  IF LongestKeyword(best, name) = 0 THEN "none"
      ELSE SLOTS_KEYWORDS[best].slot

\* C1: a file uploaded alone whose normalized name contains a keyword is
\* mapped to the most specific slot matching it; mac_serial_foto.jpg is
\* mapped to mac_serial and not to mac.
C1_SpecificSlotFirst ==
  (pc = "idle" /\ Len(uploaded) = 1) =>
     LET e == MostSpecificSlot(normalize_filename(uploaded[1].name))
     IN  /\ e # "none" => DOMAIN mapped = {e}
         /\ uploaded[1] = F_mac_serial_foto =>
              "mac_serial" \in DOMAIN mapped /\ "mac" \notin DOMAIN mapped

\* C2: each slot holds the content of the first uploaded file classified to
\* it and no slot holds anything else; later files of a filled slot and
\* files matching no keyword are in no slot; no file is in two slots.
C2_FirstFileWins ==
  /\ DOMAIN mapped \subseteq Slots
  /\ \A s \in Slots :
       LET at == {i \in DOMAIN uploaded : ClassOf(uploaded[i]) = s}
       IN  IF at = {} THEN s \notin DOMAIN mapped
           ELSE /\ s \in DOMAIN mapped
                /\ mapped[s] =
                     uploaded[CHOOSE i \in at : \A j \in at : i <= j].content
  /\ \A i \in DOMAIN uploaded :
       Cardinality({s \in DOMAIN mapped : mapped[s] = uploaded[i].content})
         <= 1

\* two files of different content for one slot and the first is the one
\* kept, after a file matching no keyword
C2_Witness ==
  /\ pc = "idle"
  /\ Len(uploaded) = 2
  /\ ClassOf(uploaded[1]) = "rack" /\ ClassOf(uploaded[2]) = "rack"
  /\ uploaded[1].content # uploaded[2].content
  /\ mapped["rack"] = uploaded[1].content

\* the slots the rules of a checklist type mention
Mentioned(t) ==
  UNION {{REQUIRED_BY_TYPE[t][i].slots[k] :
            k \in DOMAIN REQUIRED_BY_TYPE[t][i].slots} :
         i \in DOMAIN REQUIRED_BY_TYPE[t]}

\* C3: ok iff every rule of the type has one of its slots in the mapping;
\* missing is the unsatisfied rules in table order (all 12 rules of
\* produtiva for the empty mapping); a slot no rule of the type mentions
\* changes nothing.
C3_Validation ==
  pc = "validated" =>
    LET rules == REQUIRED_BY_TYPE[tipo]
        unmet == {i \in DOMAIN rules :
                    \A k \in DOMAIN rules[i].slots :
                       rules[i].slots[k] \notin DOMAIN mapped}
    IN  /\ ok <=> unmet = {}
        /\ Len(missing) = Cardinality(unmet)
        /\ \A i \in unmet :
             missing[Cardinality({j \in unmet : j <= i})] = Describe(rules[i])
        /\ (mapped = EmptyMapping /\ tipo = "produtiva") =>
             missing = << <<"rack">>, <<"local_ap">>, <<"panoramica">>,
                          <<"area_autoatendimento">>, <<"equipamento">>,
                          <<"mac_serial", " ou ", "mac">>,
                          <<"teste_velocidade">>, <<"tela_conexao">>,
                          <<"teste_mtu">>, <<"portal_login">>,
                          <<"checklist">>, <<"rat">> >>
        /\ \A s \in (Slots \cup {"outro"}) \ Mentioned(tipo) :
             check_requirements(mapped @@ (s :> 0), tipo)
               = [ok |-> ok, missing |-> missing]

\* improdutiva satisfied through the alternative "serial", with a photo
\* (panoramica) that no improdutiva rule mentions
C3_Witness ==
  /\ pc = "validated" /\ tipo = "improdutiva" /\ ok
  /\ "serial" \in DOMAIN mapped /\ "mac" \notin DOMAIN mapped
  /\ "panoramica" \in DOMAIN mapped

C4_State ==
  /\ (pc \in {"layout", "done", "crashed"} \/ instr # <<>> \/ download # <<>>)
       => (chamado_number # <<>> /\ (ok \/ force))
  /\ pc = "blocked" =>
       /\ msg \in {"error_chamado", "error_faltam"}
       /\ instr = <<>> /\ download = <<>> /\ pages = 0
  /\ msg = "error_chamado" => chamado_number = <<>>
  /\ msg = "error_faltam" => (~ ok /\ ~ force /\ missing # <<>>)

\* a press of the button: the only step from rest to blocked or layout
C4_Step ==
  (pc \in AtRest /\ pc' \in {"blocked", "layout"}) =>
     IF chamado_number = <<>> \/ (~ ok /\ ~ force)
     THEN /\ pc' = "blocked" /\ instr' = <<>> /\ download' = <<>>
          /\ msg' \in {"error_chamado", "error_faltam"}
     ELSE /\ pc' = "layout" /\ instr' # <<>> /\ instr'[1].op = "Canvas"

\* C4: rendering happens only with a non-empty ticket number and (ok or
\* force); a press without digits, or with missing slots and no force, shows
\* an error and draws nothing; a press with force and a ticket number starts
\* the rendering even though slots are missing.
C4_GenerationGate == [] C4_State /\ [][C4_Step]_vars

\* forced generation under way with slots missing
C4_Witness == pc = "layout" /\ force /\ ~ ok /\ missing # <<>> /\ sec = 1

\* C5: no decode failure of a slot's image leaves the layout: the script
\* never ends in an exception raised while a section is placed.
C5_DecodeFailureContained == pc # "crashed" /\ msg # "exception"

IsRect(c) == c.op = "rect"
IsImage(c) == c.op = "image"
IsTitle(c) == c.op = "title"

\* C6: with no file uploaded the finished layout has one placeholder box
\* for each of the 14 sections, in presentation order, and no image.
C6_AllPlaceholders ==
  (pc = "done" /\ uploaded = <<>>) =>
     LET rects == SelectSeq(instr, IsRect)
     IN  /\ Len(rects) = 14
         /\ Len(rects) = Len(PDF_IMAGE_ORDER)
         /\ \A i \in DOMAIN rects : rects[i].arg = PDF_IMAGE_ORDER[i].slot
         /\ SelectSeq(instr, IsImage) = <<>>

C6_Witness == pc = "done" /\ uploaded = <<>> /\ force /\ msg = "success"

Ticket20250330762 == <<"2", "0", "2", "5", "0", "3", "3", "0", "7", "6", "2">>

C7_Scenario ==
  /\ raw_chamado = RAW_chamado
  /\ tipo = "improdutiva"
  /\ uploaded = <<F_rack, F_checklist_ok>>

\* C7: "Chamado 20250330762", improdutiva, rack.jpg then checklist_ok.jpg:
\* the ticket number is 20250330762, the mapping is {rack, checklist}, six
\* rules are missing, nothing is generated without force, and the file
\* offered is 20250330762.pdf.
C7_EndToEnd ==
  C7_Scenario =>
    /\ chamado_number = Ticket20250330762
    /\ DOMAIN mapped = {"rack", "checklist"}
    /\ mapped["rack"] = F_rack.content
    /\ mapped["checklist"] = F_checklist_ok.content
    /\ ~ ok
    /\ missing = << <<"local_ap">>, <<"area_autoatendimento">>,
                    <<"equipamento">>,
                    <<"mac_serial", " ou ", "mac", " ou ", "serial">>,
                    <<"teste_velocidade">>, <<"rat">> >>
    /\ ~ force => (pc \in {"idle", "blocked"} /\ instr = <<>>
                   /\ download = <<>>)
    /\ (pc = "blocked" /\ ~ force) => msg = "error_faltam"
    /\ pc = "done" =>
         download = Ticket20250330762 \o <<".", "p", "d", "f">>

C7_Witness ==
  /\ C7_Scenario /\ force /\ pc = "done"
  /\ download = Ticket20250330762 \o <<".", "p", "d", "f">>

LargerThanBox(img) ==
  FLess(max_w, FromInt(img.w)) /\ FLess(max_h, FromInt(img.h))
SmallerThanBox(img) ==
  FLess(FromInt(img.w), max_w) /\ FLess(FromInt(img.h), max_h)

C8_Factor ==
  /\ last_draw.img_w = pil_img.w /\ last_draw.img_h = pil_img.h
  /\ FLeq(last_draw.ratio, One)
  /\ LargerThanBox(pil_img) =>
       /\ last_draw.ratio = FMin(FDivInt(max_w, pil_img.w),
                                 FDivInt(max_h, pil_img.h))
       /\ FLess(last_draw.ratio, One)
  /\ SmallerThanBox(pil_img) =>
       /\ last_draw.ratio = One
       /\ last_draw.draw_w = FromInt(pil_img.w)
       /\ last_draw.draw_h = FromInt(pil_img.h)

\* C8: the factor is min(box_w/img_w, box_h/img_h, 1), below 1
\* for an image larger than the box, exactly 1 for a smaller one, and the
\* drawn width and height never exceed the box.
C8_DrawnWithinBox ==
  pc = "placed" =>
    /\ C8_Factor
    /\ FLeq(last_draw.draw_w, max_w)
    /\ FLeq(last_draw.draw_h, max_h)

\* The extent of the excess: the factor is the claimed one and the drawn
\* width and height pass the box by at most one unit in the last place.
C8_DrawnWithinBoxRounded ==
  pc = "placed" =>
    /\ C8_Factor
    /\ FLeq(last_draw.draw_w, FSucc(max_w))
    /\ FLeq(last_draw.draw_h, FSucc(max_h))

\* the cursor before section k when every section takes 16 + 220 + 6 points
\* and a page is started where fewer than 220 remain above the margin
RECURSIVE FixedCursor(_)
FixedCursor(k) ==
  IF k = 1 THEN FirstSectionY
  ELSE LET y == FixedCursor(k - 1)
       IN  (IF y - 220 * Pt < 40 * Pt THEN A4.height - 40 * Pt ELSE y)
           - (16 + 220 + 6) * Pt

FixedCursors ==
  Tabulated([k \in 1 .. (Len(PDF_IMAGE_ORDER) + 1) |-> FixedCursor(k)])

FixedBreak(k) == FixedCursors[k] - 220 * Pt < 40 * Pt

FixedPages ==
  Cardinality({k \in DOMAIN PDF_IMAGE_ORDER : FixedBreak(k)})
  + (IF FixedCursors[Len(PDF_IMAGE_ORDER) + 1] - 80 * Pt < 40 * Pt
     THEN 1 ELSE 0)
  + 1

\* The sections placed so far have the cursors and page breaks of the fixed
\* advance of 16 + 220 + 6 points a section, and a finished layout its pages.
C9_FixedAdvance ==
  pc \in {"layout", "done", "crashed"} =>
    /\ \A i \in DOMAIN instr :
         instr[i].op = "title" =>
           LET k == Cardinality({j \in 1 .. i : instr[j].op = "title"})
           IN  /\ instr[i].arg = PDF_IMAGE_ORDER[k].slot
               /\ instr[i].y = IF FixedBreak(k) THEN A4.height - 40 * Pt
                               ELSE FixedCursors[k]
               /\ instr[i - 1].op = "showPage" <=> FixedBreak(k)
    /\ pc = "layout" => y_pos = FixedCursors[sec]
    /\ pc = "done" => pages = FixedPages

\* C9: whatever the mapping and whatever each slot holds, the cursor before
\* every section, the sections that start a page and the number of pages are
\* those of the fixed advance: a layout that is over has placed all the
\* sections of PDF_IMAGE_ORDER and has the pages of the fixed advance.
C9_CursorIndependentOfMapping ==
  /\ C9_FixedAdvance
  /\ pc \in {"done", "crashed"} =>
       /\ Len(SelectSeq(instr, IsTitle)) = Len(PDF_IMAGE_ORDER)
       /\ pages = FixedPages

\* C10: every section title is at or below the top margin and the lower
\* edge of its box, 16 + 220 - 8 points under it, is at or above the bottom
\* margin; every box lies between the margins; the conclusion title is at
\* or above the bottom margin.
C10_InsideMargins ==
  \A i \in DOMAIN instr :
     LET c == instr[i]
     IN  /\ c.op = "title" =>
              /\ c.y <= A4.height - 40 * Pt
              /\ c.y - (16 + 220 - 8) * Pt >= 40 * Pt
         /\ c.op \in {"rect", "image"} =>
              /\ c.y >= 40 * Pt
              /\ c.y + (220 - 24) * Pt <= A4.height - 40 * Pt
         /\ (c.op = "conclusion" /\ c.arg = "Conclusao") =>
              /\ c.y >= 40 * Pt
              /\ c.y <= A4.height - 40 * Pt

\* a finished layout with a box in the lowest band of a page, where the
\* page-break test had less than 2 * 220 points above the margin
C10_Witness ==
  /\ pc = "done"
  /\ \E i \in DOMAIN instr :
       /\ instr[i].op = "title"
       /\ instr[i].y - 2 * 220 * Pt < 40 * Pt

====
